---- MODULE Spec2Model ----
(***************************************************************************)
(* media-tweak: the trim-parameter state of src/main.rs (struct State and  *)
(* its update handlers), the preview requests it builds and the decode     *)
(* jobs it launches, the packet loop of Preview::decode_preview_image and  *)
(* Media::update_video_params of src/media.rs, modify_path of src/fs.rs    *)
(* and src/files.rs, and the coordinator that threads the content hashes   *)
(* of media.rs through the preview slots.                                  *)
(*                                                                         *)
(* Numbers.  The f64 seconds of the program are fixed-point integers here: *)
(* one second is TicksPerSec ticks and one microsecond is SubMicro ticks,  *)
(* so that `(x * 1_000_000.0).round() as i64` is a real rounding and not   *)
(* the identity.  NaN and the infinities are not represented.              *)
(*                                                                         *)
(* Paths.  A path is a sequence of chunks; "/" is the separator chunk and  *)
(* "." the dot of a file name: "/a/b/clip.mov" is                          *)
(* <<"/","a","/","b","/","clip",".","mov">>.                               *)
(*                                                                         *)
(* Option<T>.  None is <<>> and Some(x) is <<x>>.                          *)
(*                                                                         *)
(* Message::Event and Message::Instantiate change no field of State (they  *)
(* move the focus, close the window, spawn ffmpeg, or re-send ToggleVideo /*)
(* ToggleAudio, which are actions of their own here): they are stuttering  *)
(* steps.                                                                  *)
(***************************************************************************)
EXTENDS Integers, Sequences, FiniteSets, TLC

VARIABLES
    state,      \* struct State (main.rs:145-166)
    jobs,       \* decode tasks launched by Task::perform, result not yet delivered
    launched,   \* per slot: how many decode tasks have been launched so far
    applied,    \* per slot: the launch number of the task whose image is displayed (0: none)
    cpi,        \* the most recent call of create_preview_images: its arguments and tasks
    pass,       \* TRUE iff the last handled message ran check_inputs
    edits,      \* how many messages of the user's edits have been handled
    probed,     \* TRUE iff update_from_input has succeeded at least once
    probe,      \* what the last handled message did with update_from_input: "none", "ok", "err"
    slots,      \* the hash-threading coordinator: per slot, its PreviewSlot
    pc,         \* "run" in Spec; the position of a harness in the other specifications
    given,      \* harness: the input drawn for the function under check
    res1,       \* harness: Some(result of its first application)
    res2        \* harness: Some(result of its second application)

vars == <<state, jobs, launched, applied, cpi, pass, edits, probed, probe, slots, pc, given, res1, res2>>

-----------------------------------------------------------------------------
(* Bounds and program constants *)

\* ticks per microsecond: the resolution of the fixed-point numbers
SubMicro == 2

\* the factor of `* 1_000_000.0` (seconds to microseconds)
Million == 1000000

\* the most decode tasks launched per slot in one run
MaxJobs == 2

\* the most edits (text, slider, checkbox) the user makes in one run
MaxEdits == 2

TicksPerSec == Million * SubMicro

\* n hundredths of a second, in ticks
Centi(n) == n * (TicksPerSec \div 100)

None == <<>>
Some(x) == <<x>>

Slots == {"start", "end"}

-----------------------------------------------------------------------------
(* The containers on disk: what ffmpeg::format::input and the context's    *)
(* duration() and streams() answer for each path.                          *)

ClipMov == <<"/", "a", "/", "b", "/", "clip", ".", "mov">>
Clip == <<"/", "a", "/", "b", "/", "clip">>
NoPath == <<>>

InputPaths == {ClipMov, Clip, NoPath}

\* ffmpeg::format::input(path): [ok], and for an opened container its
\* duration (already divided by AV_TIME_BASE) and its streams in order
Container(path) ==
    CASE path = ClipMov -> [ok |-> TRUE, duration |-> Centi(1000), streams |-> <<"video", "audio">>]
      [] path = Clip    -> [ok |-> TRUE, duration |-> Centi(30), streams |-> <<"audio">>]
      [] OTHER          -> [ok |-> FALSE, duration |-> 0, streams |-> <<>>]

\* the values a user types into the start / end text fields or drags a slider to
Vals == {Centi(-100), 0, Centi(300), Centi(1200)}

UserOutput == <<"out", ".", "mkv">>
OutputPaths == {NoPath, UserOutput}

-----------------------------------------------------------------------------
(* std::path *)

RECURSIVE TrimSlashes(_)
\* a trailing separator does not make a component
TrimSlashes(p) ==
    IF Len(p) > 1 /\ p[Len(p)] = "/" THEN TrimSlashes(SubSeq(p, 1, Len(p) - 1)) ELSE p

RECURSIVE LastIndexOf(_, _, _)
\* the greatest i <= n with p[i] = c, or 0
LastIndexOf(p, c, n) ==
    IF n = 0 THEN 0 ELSE IF p[n] = c THEN n ELSE LastIndexOf(p, c, n - 1)

\* Path::file_name: the last component, None for "", "/" and a path ending in ".."
file_name(path) ==
    LET p == TrimSlashes(path)
        i == LastIndexOf(p, "/", Len(p))
        name == SubSeq(p, i + 1, Len(p))
    IN  IF name = <<>> \/ name = <<".", ".">> THEN None ELSE Some(name)

\* Path::file_stem: the file name up to its last dot; the whole name when the
\* only dot is the first character
file_stem(path) ==
    LET f == file_name(path)
    IN  IF f = None THEN None
        ELSE LET name == f[1]
                 d == LastIndexOf(name, ".", Len(name))
             IN  IF d <= 1 THEN Some(name) ELSE Some(SubSeq(name, 1, d - 1))

\* Path::extension: what follows the last dot of the file name, None when
\* there is no dot or the only dot is the first character
extension(path) ==
    LET f == file_name(path)
    IN  IF f = None THEN None
        ELSE LET name == f[1]
                 d == LastIndexOf(name, ".", Len(name))
             IN  IF d <= 1 THEN None ELSE Some(SubSeq(name, d + 1, Len(name)))

\* Path::with_file_name: drop the last component if there is one, push the name
with_file_name(path, name) ==
    LET p == TrimSlashes(path)
        i == LastIndexOf(p, "/", Len(p))
        parent == IF file_name(path) = None THEN p
                  ELSE IF i <= 1 THEN SubSeq(p, 1, i) ELSE SubSeq(p, 1, i - 1)
    IN  IF parent = <<>> \/ parent[Len(parent)] = "/" THEN parent \o name
        ELSE parent \o <<"/">> \o name

unwrap_or(o, d) == IF o = None THEN d ELSE o[1]

-----------------------------------------------------------------------------
(* struct State and its methods (main.rs) *)

\* #[derive(Default)] Preview
DefaultPreview == [seek |-> 0, input |-> NoPath]

\* #[derive(Default)] State
DefaultState ==
    [ input |-> NoPath, input_changed |-> FALSE, input_length |-> 0,
      start |-> 0, end |-> 0, number_changed |-> FALSE,
      use_video |-> FALSE, use_audio |-> FALSE,
      last_start_preview |-> DefaultPreview, last_end_preview |-> DefaultPreview,
      start_preview |-> None, end_preview |-> None,
      output |-> NoPath, output_is_generated |-> FALSE ]

\* a cast to i64 without the round(): truncation toward zero
RoundMicrosTruncating(t) ==
    IF t >= 0 THEN t \div SubMicro ELSE -((-t) \div SubMicro)

\* f64::round of a tick count taken as microseconds (half away from zero), as i64
RoundMicros(t) ==
    IF t >= 0 THEN (2 * t + SubMicro) \div (2 * SubMicro)
    ELSE -((2 * (-t) + SubMicro) \div (2 * SubMicro))

\* clamp_numbers capping end to the duration last instead of first
clamp_numbers_cap_last(s) ==
    LET s1 == IF s.start > s.end THEN [s EXCEPT !.start = s.end] ELSE s
        s2 == IF s1.end < s1.start THEN [s1 EXCEPT !.end = s1.start] ELSE s1
        s3 == IF s2.end > s2.input_length THEN [s2 EXCEPT !.end = s2.input_length] ELSE s2
    IN  s3

\* State::clamp_numbers
clamp_numbers(s) ==
    LET s1 == IF s.end > s.input_length THEN [s EXCEPT !.end = s.input_length] ELSE s
        s2 == IF s1.start > s1.end THEN [s1 EXCEPT !.start = s1.end] ELSE s1
        s3 == IF s2.end < s2.start THEN [s2 EXCEPT !.end = s2.start] ELSE s2
    IN  s3

\* generate_output_path taking the whole file name for the stem
generate_output_path_from_name(s) ==
    LET stem == unwrap_or(file_name(s.input), <<"media">>)
        ext == unwrap_or(extension(s.input), <<"mkv">>)
    IN  [s EXCEPT !.output_is_generated = TRUE,
                  !.output = with_file_name(s.input, stem \o <<"_edited", ".">> \o ext)]

\* State::generate_output_path
generate_output_path(s) ==
    LET stem == unwrap_or(file_stem(s.input), <<"media">>)
        ext == unwrap_or(extension(s.input), <<"mkv">>)
    IN  [s EXCEPT !.output_is_generated = TRUE,
                  !.output = with_file_name(s.input, stem \o <<"_edited", ".">> \o ext)]

\* modify_path of fs.rs and files.rs: PathBuf::set_file_name drops the last
\* component if there is one and pushes the name, as with_file_name does
modify_path(path) ==
    LET stem == unwrap_or(file_stem(path), <<"media">>)
        ext == unwrap_or(extension(path), <<"mkv">>)
    IN  with_file_name(path, stem \o <<"_edited", ".">> \o ext)

RECURSIVE FindFrom(_, _, _)
\* Iterator::find on the streams iterator standing before stream i: the index
\* of the first stream of the kind at or after i, or Len + 1 (iterator used up)
FindFrom(streams, i, kind) ==
    IF i > Len(streams) THEN Len(streams) + 1
    ELSE IF streams[i] = kind THEN i
    ELSE FindFrom(streams, i + 1, kind)

\* update_from_input generating the output path whatever the output is
update_from_context_regenerating(s, context) ==
    LET streams == context.streams
        v == FindFrom(streams, 1, "video")
        a == FindFrom(streams, v + 1, "audio")
        s1 == [s EXCEPT !.input_length = context.duration]
        s2 == IF v <= Len(streams) THEN [s1 EXCEPT !.use_video = TRUE] ELSE s1
        s3 == IF a <= Len(streams) THEN [s2 EXCEPT !.use_audio = TRUE] ELSE s2
        s4 == generate_output_path(s3)
        s5 == [s4 EXCEPT !.end = s4.input_length]
    IN  IF ~context.ok THEN [ok |-> FALSE, s |-> s] ELSE [ok |-> TRUE, s |-> s5]

\* update_from_input resetting the duration and the end before it returns the
\* error of format::input
update_from_context_resetting(s, context) ==
    LET streams == context.streams
        v == FindFrom(streams, 1, "video")
        a == FindFrom(streams, v + 1, "audio")
        s1 == [s EXCEPT !.input_length = context.duration]
        s2 == IF v <= Len(streams) THEN [s1 EXCEPT !.use_video = TRUE] ELSE s1
        s3 == IF a <= Len(streams) THEN [s2 EXCEPT !.use_audio = TRUE] ELSE s2
        s4 == IF s3.output = NoPath \/ s3.output_is_generated
              THEN generate_output_path(s3) ELSE s3
        s5 == [s4 EXCEPT !.end = s4.input_length]
    IN  IF ~context.ok THEN [ok |-> FALSE, s |-> [s1 EXCEPT !.end = s1.input_length]]
        ELSE [ok |-> TRUE, s |-> s5]

\* State::update_from_input once format::input has answered `context`: [ok, s]
update_from_context(s, context) ==
    LET streams == context.streams
        v == FindFrom(streams, 1, "video")
        a == FindFrom(streams, v + 1, "audio")
        s1 == [s EXCEPT !.input_length = context.duration]
        s2 == IF v <= Len(streams) THEN [s1 EXCEPT !.use_video = TRUE] ELSE s1
        s3 == IF a <= Len(streams) THEN [s2 EXCEPT !.use_audio = TRUE] ELSE s2
        s4 == IF s3.output = NoPath \/ s3.output_is_generated
              THEN generate_output_path(s3) ELSE s3
        s5 == [s4 EXCEPT !.end = s4.input_length]
    IN  IF ~context.ok THEN [ok |-> FALSE, s |-> s] ELSE [ok |-> TRUE, s |-> s5]

\* State::update_from_input: [ok, s]
update_from_input(s) == update_from_context(s, Container(s.input))

\* the start-slot request of create_preview_images
StartRequest(s) == [seek |-> RoundMicros(s.start), input |-> s.input]

\* the end-slot request without the seek before the end of the video
EndRequestNoCompensation(s) == [seek |-> RoundMicros(s.end), input |-> s.input]

\* the end-slot request of create_preview_images
EndRequest(s) ==
    [seek |-> RoundMicros(IF s.end > s.input_length - Centi(10)
                          THEN s.end - Centi(50) ELSE s.end),
     input |-> s.input]

\* a task launched whether or not the request is the slot's last one
IsNewRequestAlways(request, last) == TRUE

\* the decision of create_preview_images to launch a task for a freshly built
\* request, given the slot's last request
IsNewRequest(request, last) == request # last

\* What a handler leaves behind: the state, the slots it launched a decode
\* task for, whether it called create_preview_images, and what became of
\* update_from_input ("none": not called, "ok", "err").
Plain(s) == [s |-> s, slots |-> {}, called |-> FALSE, probe |-> "none"]

\* create_preview_images launching both tasks when either request is new
create_preview_images_batching(s) ==
    LET start_preview == StartRequest(s)
        end_preview == EndRequest(s)
        either == \/ IsNewRequest(start_preview, s.last_start_preview)
                  \/ IsNewRequest(end_preview, s.last_end_preview)
    IN  IF ~s.use_video
        THEN [s |-> s, slots |-> {}, called |-> TRUE, probe |-> "none"]
        ELSE [s |-> IF either THEN [s EXCEPT !.last_start_preview = start_preview,
                                             !.last_end_preview = end_preview]
                    ELSE s,
              slots |-> IF either THEN {"start", "end"} ELSE {},
              called |-> TRUE, probe |-> "none"]

\* State::create_preview_images
create_preview_images(s) ==
    LET start_preview == StartRequest(s)
        end_preview == EndRequest(s)
        newStart == IsNewRequest(start_preview, s.last_start_preview)
        newEnd == IsNewRequest(end_preview, s.last_end_preview)
        s1 == IF newStart THEN [s EXCEPT !.last_start_preview = start_preview] ELSE s
        s2 == IF newEnd THEN [s1 EXCEPT !.last_end_preview = end_preview] ELSE s1
    IN  IF ~s.use_video
        THEN [s |-> s, slots |-> {}, called |-> TRUE, probe |-> "none"]
        ELSE [s |-> s2,
              slots |-> (IF newStart THEN {"start"} ELSE {}) \cup (IF newEnd THEN {"end"} ELSE {}),
              called |-> TRUE, probe |-> "none"]

\* State::check_inputs
check_inputs(s) ==
    LET s1 == IF s.number_changed THEN clamp_numbers(s) ELSE s
        r1 == IF s.number_changed /\ ~s.input_changed
              THEN create_preview_images(s1) ELSE Plain(s1)
        s2 == [r1.s EXCEPT !.number_changed = FALSE]
        u == update_from_input(s2)
        r2 == IF u.ok THEN create_preview_images(u.s) ELSE Plain(u.s)
    IN  IF s2.input_changed
        THEN [r2 EXCEPT !.s = [r2.s EXCEPT !.input_changed = FALSE], !.probe = IF u.ok THEN "ok" ELSE "err"]
        ELSE IF s2.output = NoPath /\ ~s2.output_is_generated
             THEN [r1 EXCEPT !.s = generate_output_path(s2)]
             ELSE [r1 EXCEPT !.s = s2]

\* State::new with the first command-line argument (None: no argument)
new(arg) ==
    LET s == [DefaultState EXCEPT !.input = arg[1]]
        u == update_from_input(s)
    IN  IF arg = None THEN Plain(DefaultState)
        ELSE IF u.ok THEN [create_preview_images(u.s) EXCEPT !.probe = "ok"]
        ELSE [Plain(u.s) EXCEPT !.probe = "err"]

-----------------------------------------------------------------------------
(* The application: State::new and State::update, one action per message *)

\* the arguments of a create_preview_images call
Args(s) == <<s.start, s.end, s.input_length, s.input>>

NoCall ==
    [fresh |-> FALSE, args |-> <<>>, video |-> FALSE,
     same |-> FALSE, prevVideo |-> FALSE, launched |-> {}]

\* the record of a create_preview_images call, given the previous record
Call(r, prev) ==
    [fresh |-> r.s.use_video, args |-> Args(r.s), video |-> r.s.use_video,
     same |-> (prev.args = Args(r.s)), prevVideo |-> prev.video, launched |-> r.slots]

\* the request a task launched for the slot carries
RequestOf(s, slot) == IF slot = "start" THEN s.last_start_preview ELSE s.last_end_preview

\* PreviewSlot, created empty at startup: the last accepted request, the hash
\* of the last result applied, and the id of the job in flight (0: none)
EmptySlots ==
    [sl \in Slots |-> [last_request |-> None, last_result_hash |-> 0, in_flight |-> 0]]

HarnessIdle ==
    /\ given = None
    /\ res1 = None
    /\ res2 = None

\* iced::application(State::new, ...): the state and the task State::new returns
Init ==
    /\ \E arg \in {None} \cup {Some(p) : p \in InputPaths} :
         \E r \in {new(arg)} :
             /\ state = r.s
             /\ launched = [sl \in Slots |-> IF sl \in r.slots THEN 1 ELSE 0]
             /\ jobs = {[slot |-> sl, id |-> 1, req |-> RequestOf(r.s, sl)] : sl \in r.slots}
             /\ cpi = IF r.called THEN Call(r, NoCall) ELSE NoCall
             /\ probed = (r.probe = "ok")
             /\ probe = r.probe
    /\ applied = [sl \in Slots |-> 0]
    /\ pass = FALSE
    /\ edits = 0
    /\ slots = EmptySlots
    /\ pc = "run"
    /\ HarnessIdle

\* The effect of one State::update call that returned r: the new state, and
\* the tasks of the returned Task handed to the runtime.
Handled(r, isPass) ==
    /\ \A sl \in r.slots : launched[sl] < MaxJobs
    /\ state' = r.s
    /\ launched' = [sl \in Slots |-> IF sl \in r.slots THEN launched[sl] + 1 ELSE launched[sl]]
    /\ jobs' = jobs \cup {[slot |-> sl, id |-> launched[sl] + 1, req |-> RequestOf(r.s, sl)] : sl \in r.slots}
    /\ cpi' = IF r.called THEN Call(r, cpi) ELSE [cpi EXCEPT !.fresh = FALSE]
    /\ pass' = isPass
    /\ edits' = IF isPass THEN edits ELSE edits + 1
    /\ edits' <= MaxEdits
    /\ probed' = (probed \/ r.probe = "ok")
    /\ probe' = r.probe
    /\ UNCHANGED <<applied, slots, pc, given, res1, res2>>

\* Message::InputChange(str)
InputChange ==
    /\ pc = "run"
    /\ \E str \in InputPaths :
         \E r \in {Plain([state EXCEPT !.input = str, !.input_changed = TRUE])} : Handled(r, FALSE)

\* Message::OutputChange(str)
OutputChange ==
    /\ pc = "run"
    /\ \E str \in OutputPaths :
         \E r \in {Plain([state EXCEPT !.output = str, !.output_is_generated = FALSE])} : Handled(r, FALSE)

\* Message::StartChange(val) clamping the numbers as soon as the value is stored
StartChangeClamping ==
    /\ pc = "run"
    /\ \E val \in Vals :
         \E r \in {Plain(clamp_numbers([state EXCEPT !.start = val, !.number_changed = TRUE]))} :
             Handled(r, FALSE)

\* Message::StartChange(val): the start text field, any number the user types
StartChange ==
    /\ pc = "run"
    /\ \E val \in Vals :
         \E r \in {Plain([state EXCEPT !.start = val, !.number_changed = TRUE])} : Handled(r, FALSE)

\* Message::EndChange(val): the end text field, any number the user types
EndChange ==
    /\ pc = "run"
    /\ \E val \in Vals :
         \E r \in {Plain([state EXCEPT !.end = val, !.number_changed = TRUE])} : Handled(r, FALSE)

\* the positions of the sliders: the typed values and the durations on disk
SliderVals == Vals \cup {Container(p).duration : p \in InputPaths}

\* Message::StartSliderChange(val): the slider of view() over 0 ..= end - 1.0
StartSliderChange ==
    /\ pc = "run"
    /\ \E val \in SliderVals :
         /\ 0 <= val
         /\ val <= state.end - Centi(100)
         /\ \E r \in {create_preview_images([state EXCEPT !.start = val])} : Handled(r, FALSE)

\* Message::EndSliderChange(val): the slider of view() over start + 0.9 ..= input_length
EndSliderChange ==
    /\ pc = "run"
    /\ \E val \in SliderVals :
         /\ state.start + Centi(90) <= val
         /\ val <= state.input_length
         /\ \E r \in {create_preview_images([state EXCEPT !.end = val])} : Handled(r, FALSE)

\* Message::Submitted (focus_next changes no field)
Submitted ==
    /\ pc = "run"
    /\ \E r \in {check_inputs(state)} : Handled(r, TRUE)

\* Message::Update
Update ==
    /\ pc = "run"
    /\ \E r \in {check_inputs(state)} : Handled(r, TRUE)

\* Message::ToggleVideo
ToggleVideo ==
    /\ pc = "run"
    /\ \E r \in {Plain([state EXCEPT !.use_video = ~state.use_video])} : Handled(r, FALSE)

\* Message::ToggleAudio
ToggleAudio ==
    /\ pc = "run"
    /\ \E r \in {Plain([state EXCEPT !.use_audio = ~state.use_audio])} : Handled(r, FALSE)

\* the Loaded handlers storing whatever comes, None included
LoadedStoringNone(s, slot, o) ==
    IF slot = "start" THEN [s EXCEPT !.start_preview = o]
    ELSE [s EXCEPT !.end_preview = o]

\* the Loaded handlers forgetting the slot's last request when no image comes
LoadedForgettingRequest(s, slot, o) ==
    IF o = None
    THEN IF slot = "start" THEN [s EXCEPT !.last_start_preview = DefaultPreview]
         ELSE [s EXCEPT !.last_end_preview = DefaultPreview]
    ELSE IF slot = "start" THEN [s EXCEPT !.start_preview = o]
    ELSE [s EXCEPT !.end_preview = o]

\* the state after Message::LoadedStartPreview(o) / Message::LoadedEndPreview(o)
Loaded(s, slot, o) ==
    IF o = None THEN s
    ELSE IF slot = "start" THEN [s EXCEPT !.start_preview = o]
    ELSE [s EXCEPT !.end_preview = o]

\* A launched task finishes and the runtime delivers its message, in any
\* order among the tasks in flight: decode_preview_image returned None or
\* the image of the task's request.
Deliver(slot) ==
    /\ pc = "run"
    /\ \E j \in jobs :
         /\ j.slot = slot
         /\ \E o \in {None, Some(j.req)} :
              /\ state' = Loaded(state, slot, o)
              /\ applied' = IF o = None THEN applied ELSE [applied EXCEPT ![slot] = j.id]
         /\ jobs' = jobs \ {j}
    /\ cpi' = [cpi EXCEPT !.fresh = FALSE]
    /\ pass' = FALSE
    /\ probe' = "none"
    /\ UNCHANGED <<launched, edits, probed, slots, pc, given, res1, res2>>

\* Message::LoadedStartPreview(o)
LoadedStartPreview == Deliver("start")

\* Message::LoadedEndPreview(o)
LoadedEndPreview == Deliver("end")

Next ==
    \/ InputChange
    \/ OutputChange
    \/ StartChange
    \/ EndChange
    \/ StartSliderChange
    \/ EndSliderChange
    \/ Submitted
    \/ Update
    \/ ToggleVideo
    \/ ToggleAudio
    \/ LoadedStartPreview
    \/ LoadedEndPreview

Spec == Init /\ [][Next]_vars

-----------------------------------------------------------------------------
(* clamp_numbers over a grid of inputs: applied twice to every start, end  *)
(* and positive duration of the grid.                                      *)

ClampVals == {Centi(-200), Centi(-100), 0, Centi(300), Centi(1000), Centi(1200), Centi(1500)}

ClampDurations == {Centi(30), Centi(1000)}

NumbersOf(s) == [start |-> s.start, end |-> s.end, input_length |-> s.input_length]

CoordinatorIdle ==
    /\ jobs = {}
    /\ launched = [sl \in Slots |-> 0]
    /\ applied = [sl \in Slots |-> 0]
    /\ cpi = NoCall
    /\ pass = FALSE
    /\ edits = 0
    /\ probed = FALSE
    /\ probe = "none"
    /\ slots = EmptySlots

InitClamp ==
    /\ \E a \in [start : ClampVals, end : ClampVals, input_length : ClampDurations] :
         /\ given = Some(a)
         /\ state = [DefaultState EXCEPT !.start = a.start, !.end = a.end,
                                         !.input_length = a.input_length]
    /\ CoordinatorIdle
    /\ pc = "clamp0"
    /\ res1 = None
    /\ res2 = None

\* the first clamp_numbers call
ClampOnce ==
    /\ pc = "clamp0"
    /\ state' = clamp_numbers(state)
    /\ res1' = Some(NumbersOf(state'))
    /\ pc' = "clamp1"
    /\ UNCHANGED <<jobs, launched, applied, cpi, pass, edits, probed, probe, slots, given, res2>>

\* a second clamp_numbers call on the result of the first
ClampAgain ==
    /\ pc = "clamp1"
    /\ state' = clamp_numbers(state)
    /\ res2' = Some(NumbersOf(state'))
    /\ pc' = "clamp2"
    /\ UNCHANGED <<jobs, launched, applied, cpi, pass, edits, probed, probe, slots, given, res1>>

NextClamp == ClampOnce \/ ClampAgain

SpecClamp == InitClamp /\ [][NextClamp]_vars

-----------------------------------------------------------------------------
(* create_preview_images over a grid of inputs: one call on a State with   *)
(* every start, end and duration of the grid.                              *)

SeekVals ==
    {Centi(-100), 0, Centi(20), Centi(300) + 1, Centi(950), Centi(990), Centi(995),
     Centi(1000), Centi(1200)}

SeekDurations == {Centi(30), Centi(1000)}

InitSeek ==
    /\ \E a \in [start : SeekVals, end : SeekVals, input_length : SeekDurations] :
         /\ given = Some(a)
         /\ \E video \in BOOLEAN :
              state = [DefaultState EXCEPT !.start = a.start, !.end = a.end,
                                           !.input_length = a.input_length,
                                           !.input = ClipMov, !.use_video = video]
    /\ CoordinatorIdle
    /\ pc = "seek0"
    /\ res1 = None
    /\ res2 = None

\* one create_preview_images call
RefreshOnce ==
    /\ pc = "seek0"
    /\ \E r \in {create_preview_images(state)} :
           /\ state' = r.s
           /\ launched' = [sl \in Slots |-> IF sl \in r.slots THEN 1 ELSE 0]
           /\ jobs' = {[slot |-> sl, id |-> 1, req |-> RequestOf(r.s, sl)] : sl \in r.slots}
           /\ cpi' = Call(r, cpi)
    /\ pc' = "seek1"
    /\ UNCHANGED <<applied, pass, edits, probed, probe, slots, given, res1, res2>>

NextSeek == RefreshOnce

SpecSeek == InitSeek /\ [][NextSeek]_vars

-----------------------------------------------------------------------------
(* Preview::decode_preview_image (media.rs) over the packets the demuxer   *)
(* yields for the selected stream after the seek.  A packet is its payload *)
(* and what the decoder and the scaler answer when it is submitted:        *)
(*   "send_err"   send_packet fails                                        *)
(*   "again"      receive_frame fails with errno 11 (no frame yet)         *)
(*   "recv_err"   receive_frame fails with another error                   *)
(*   "scale_err"  the frame is produced and scalar.run fails               *)
(*   "frame"      the frame is produced and converted                      *)
(* The same file read again yields the same packets and the same answers.  *)

\* the most packets of the selected stream
MaxPkts == 3

\* the hash values are 0 .. HashMod - 1 (u64 in the program)
HashMod == 3

Payloads == {<<>>, <<1>>, <<2>>, <<1, 2>>}

Outcomes == {"send_err", "again", "recv_err", "scale_err", "frame"}

\* an empty packet is never submitted: one outcome stands for all
Packets ==
    {p \in [data : Payloads, out : Outcomes] : p.data = <<>> => p.out = "frame"}

PacketSeqs == UNION {[1 .. n -> Packets] : n \in 0 .. MaxPkts}

\* the steps before the packet loop, each of which can fail
SetupSteps == {"open", "best_stream", "context", "decoder", "scaler", "seek"}

RECURSIVE HashFrom(_, _, _)
\* DefaultHasher fed the bytes from index i on, with h the state so far
HashFrom(data, i, h) ==
    IF i > Len(data) THEN h ELSE HashFrom(data, i + 1, (h * 31 + data[i]) % HashMod)

\* packet.data().hash(&mut hasher); hasher.finish(): the slice's length, then its bytes
Hash(data) == HashFrom(data, 1, Len(data) % HashMod)

Err(e, read, sent) == [ok |-> FALSE, err |-> e, read |-> read, sent |-> sent]

\* the packet loop without the comparison with prev_hash
SameAsPrevNever(new_hash, prev_hash) == FALSE

\* whether the packet loop stops on a packet whose hash is the request's prev_hash
SameAsPrev(new_hash, prev_hash) == new_hash = prev_hash

RECURSIVE PacketLoopHashingEmpty(_, _, _, _)
\* the packet loop comparing the hash of a packet before it looks whether
\* the packet is empty
PacketLoopHashingEmpty(packets, i, prev_hash, sent) ==
    IF i > Len(packets) THEN Err("NoPackets", Len(packets), sent)
    ELSE LET packet == packets[i]
             new_hash == Hash(packet.data)
         IN  IF SameAsPrev(new_hash, prev_hash) THEN Err("SameHash", i, sent)
             ELSE IF packet.data = <<>>
                  THEN PacketLoopHashingEmpty(packets, i + 1, prev_hash, sent)
             ELSE IF packet.out = "send_err" THEN Err("Raw", i, Append(sent, i))
             ELSE IF packet.out = "again"
                  THEN PacketLoopHashingEmpty(packets, i + 1, prev_hash, Append(sent, i))
             ELSE IF packet.out \in {"recv_err", "scale_err"} THEN Err("Raw", i, Append(sent, i))
             ELSE [ok |-> TRUE, image |-> i, hash |-> new_hash,
                   read |-> i, sent |-> Append(sent, i)]

RECURSIVE PacketLoopStoppingOnAgain(_, _, _, _)
\* the packet loop leaving the loop at a frame-not-ready answer
PacketLoopStoppingOnAgain(packets, i, prev_hash, sent) ==
    IF i > Len(packets) THEN Err("NoPackets", Len(packets), sent)
    ELSE LET packet == packets[i]
             new_hash == Hash(packet.data)
         IN  IF packet.data = <<>>
             THEN PacketLoopStoppingOnAgain(packets, i + 1, prev_hash, sent)
             ELSE IF SameAsPrev(new_hash, prev_hash) THEN Err("SameHash", i, sent)
             ELSE IF packet.out = "send_err" THEN Err("Raw", i, Append(sent, i))
             ELSE IF packet.out = "again" THEN Err("NoPackets", i, Append(sent, i))
             ELSE IF packet.out \in {"recv_err", "scale_err"} THEN Err("Raw", i, Append(sent, i))
             ELSE [ok |-> TRUE, image |-> i, hash |-> new_hash,
                   read |-> i, sent |-> Append(sent, i)]

RECURSIVE PacketLoop(_, _, _, _)
\* the for loop over the packets, standing before packet i; sent lists the
\* packets given to send_packet so far
PacketLoop(packets, i, prev_hash, sent) ==
    IF i > Len(packets) THEN Err("NoPackets", Len(packets), sent)
    ELSE LET packet == packets[i]
             new_hash == Hash(packet.data)
         IN  IF packet.data = <<>> THEN PacketLoop(packets, i + 1, prev_hash, sent)
             ELSE IF SameAsPrev(new_hash, prev_hash) THEN Err("SameHash", i, sent)
             ELSE IF packet.out = "send_err" THEN Err("Raw", i, Append(sent, i))
             ELSE IF packet.out = "again"
                  THEN PacketLoop(packets, i + 1, prev_hash, Append(sent, i))
             ELSE IF packet.out \in {"recv_err", "scale_err"} THEN Err("Raw", i, Append(sent, i))
             ELSE [ok |-> TRUE, image |-> i, hash |-> new_hash,
                   read |-> i, sent |-> Append(sent, i)]

\* Preview::decode_preview_image on a file whose setup step `fails` fails
\* ("none": all succeed) and whose selected stream holds `packets`
decode_preview_image(fails, packets, prev_hash) ==
    IF fails # "none" THEN Err("Raw", 0, <<>>)
    ELSE PacketLoop(packets, 1, prev_hash, <<>>)

RECURSIVE PacketLoopFiles(_, _, _, _)
\* the for loop of files.rs: as in media.rs, but an error of receive_frame
\* other than EAGAIN is only printed, and scalar.run is then given the frame
\* that was never filled, which it refuses (its input is not the decoder's)
PacketLoopFiles(packets, i, prev_hash, sent) ==
    IF i > Len(packets) THEN Err("NoPackets", Len(packets), sent)
    ELSE LET packet == packets[i]
             new_hash == Hash(packet.data)
         IN  IF packet.data = <<>> THEN PacketLoopFiles(packets, i + 1, prev_hash, sent)
             ELSE IF SameAsPrev(new_hash, prev_hash) THEN Err("SameHash", i, sent)
             ELSE IF packet.out = "send_err" THEN Err("send", i, Append(sent, i))
             ELSE IF packet.out = "again"
                  THEN PacketLoopFiles(packets, i + 1, prev_hash, Append(sent, i))
             ELSE IF packet.out \in {"recv_err", "scale_err"} THEN Err("scale", i, Append(sent, i))
             ELSE [ok |-> TRUE, image |-> i, hash |-> new_hash,
                   read |-> i, sent |-> Append(sent, i)]

RECURSIVE PacketLoopMain(_, _, _)
\* the for loop of main.rs: every packet is given to send_packet, and a packet
\* whose send_packet, receive_frame or scalar.run fails is passed over for
\* the next one; None when the packets are used up
PacketLoopMain(packets, i, sent) ==
    IF i > Len(packets) THEN Err("None", Len(packets), sent)
    ELSE IF packets[i].out = "frame"
         THEN [ok |-> TRUE, image |-> i, hash |-> 0, read |-> i, sent |-> Append(sent, i)]
         ELSE PacketLoopMain(packets, i + 1, Append(sent, i))

InitDecode ==
    /\ \E f \in SetupSteps \cup {"none"}, ps \in PacketSeqs, h \in 0 .. HashMod - 1 :
         /\ f # "none" => ps = <<>>
         /\ given = Some([fails |-> f, packets |-> ps, prev_hash |-> h])
    /\ state = DefaultState
    /\ CoordinatorIdle
    /\ pc = "decode0"
    /\ res1 = None
    /\ res2 = None

\* a first decode with the request's prev_hash
DecodeOnce ==
    /\ pc = "decode0"
    /\ res1' = Some(decode_preview_image(given[1].fails, given[1].packets, given[1].prev_hash))
    /\ pc' = "decode1"
    /\ UNCHANGED <<state, jobs, launched, applied, cpi, pass, edits, probed, probe, slots, given, res2>>

\* after a successful decode, the same file and seek target decoded again
\* with prev_hash set to the hash the first decode returned
DecodeAgain ==
    /\ pc = "decode1"
    /\ res1[1].ok
    /\ res2' = Some(decode_preview_image(given[1].fails, given[1].packets, res1[1].hash))
    /\ pc' = "decode2"
    /\ UNCHANGED <<state, jobs, launched, applied, cpi, pass, edits, probed, probe, slots, given, res1>>

NextDecode == DecodeOnce \/ DecodeAgain

SpecDecode == InitDecode /\ [][NextDecode]_vars

-----------------------------------------------------------------------------
(* The three packet loops (media.rs, files.rs, main.rs) over the same      *)
(* packets: every sequence of up to MaxPkts packets, each with the answer  *)
(* the decoder gives when the packet is submitted.                         *)

LoopPackets == [data : {<<>>, <<1>>, <<2>>}, out : Outcomes]

LoopPacketSeqs == UNION {[1 .. n -> LoopPackets] : n \in 0 .. MaxPkts}

InitLoop ==
    /\ \E ps \in LoopPacketSeqs, h \in 0 .. HashMod - 1 :
         given = Some([packets |-> ps, prev_hash |-> h])
    /\ state = DefaultState
    /\ CoordinatorIdle
    /\ pc = "loop0"
    /\ res1 = None
    /\ res2 = None

\* the loop of media.rs
LoopMedia ==
    /\ pc = "loop0"
    /\ res1' = Some(PacketLoop(given[1].packets, 1, given[1].prev_hash, <<>>))
    /\ pc' = "loop1"
    /\ UNCHANGED <<state, jobs, launched, applied, cpi, pass, edits, probed, probe, slots, given, res2>>

\* the loop of files.rs
LoopFiles ==
    /\ pc = "loop1"
    /\ res2' = <<PacketLoopFiles(given[1].packets, 1, given[1].prev_hash, <<>>)>>
    /\ pc' = "loop2"
    /\ UNCHANGED <<state, jobs, launched, applied, cpi, pass, edits, probed, probe, slots, given, res1>>

\* the loop of main.rs; res2 holds the result of files.rs, then this one
LoopMain ==
    /\ pc = "loop2"
    /\ res2' = Append(res2, PacketLoopMain(given[1].packets, 1, <<>>))
    /\ pc' = "loop3"
    /\ UNCHANGED <<state, jobs, launched, applied, cpi, pass, edits, probed, probe, slots, given, res1>>

NextLoop == LoopMedia \/ LoopFiles \/ LoopMain

SpecLoop == InitLoop /\ [][NextLoop]_vars

-----------------------------------------------------------------------------
(* The RGBA packing at the end of Preview::decode_preview_image (media.rs  *)
(* and files.rs have the same loop) over a grid of converted frames.  The  *)
(* scaler's output frame is RGB24: plane 0 holds `height` rows of `stride` *)
(* bytes, of which the first 3 * width are the pixels of the row and the   *)
(* rest is the padding the allocation added; rgb_frame.data(0) is the      *)
(* whole plane.                                                            *)

\* the widest and the highest frame, and the most padding bytes of a row
MaxW == 2

MaxH == 2

MaxPad == 2

\* the colour bytes of a frame follow from a seed; a padding byte is any of
\* PadBytes
PackSeeds == {0, 100, 250}

PadBytes == {0, 9}

\* colour byte number n (0-based, row-major, R then G then B) of a frame
ColourByte(seed, n) == (seed + 37 * n) % 256

\* plane 0 of the frame: rgb_frame.data(0)
Plane(w, h, stride, seed, padbyte) ==
    [i \in 1 .. stride * h |->
        LET row == (i - 1) \div stride
            off == (i - 1) % stride
        IN  IF off < 3 * w THEN ColourByte(seed, row * 3 * w + off) ELSE padbyte]

RgbFrames ==
    {[width |-> w, height |-> h, stride |-> 3 * w + pad,
      data |-> Plane(w, h, 3 * w + pad, seed, padbyte), seed |-> seed] :
        w \in 1 .. MaxW, h \in 1 .. MaxH, pad \in 0 .. MaxPad,
        seed \in PackSeeds, padbyte \in PadBytes}

U8Max == 255

RECURSIVE RgbaPack(_, _, _)
\* `for (i, rgb) in rgb_frame.data(0).iter().enumerate()`; i is 1-based here
RgbaPack(data, i, buf) ==
    IF i > Len(data) THEN buf
    ELSE RgbaPack(data, i + 1,
                  IF i % 3 = 0 THEN buf \o <<data[i], U8Max>> ELSE Append(buf, data[i]))

InitPack ==
    /\ \E f \in RgbFrames : given = Some(f)
    /\ state = DefaultState
    /\ CoordinatorIdle
    /\ pc = "pack0"
    /\ res1 = None
    /\ res2 = None

\* res1 is the buffer handed to Handle::from_rgba with the frame's width and
\* height
PackOnce ==
    /\ pc = "pack0"
    /\ res1' = Some(RgbaPack(given[1].data, 1, <<>>))
    /\ pc' = "pack1"
    /\ UNCHANGED <<state, jobs, launched, applied, cpi, pass, edits, probed, probe, slots, given, res2>>

NextPack == PackOnce

SpecPack == InitPack /\ [][NextPack]_vars

-----------------------------------------------------------------------------
(* The probes over a grid of containers: State::update_from_input of       *)
(* main.rs and Media::update_video_params of media.rs, each applied once   *)
(* to every stream list of the grid in every order, with every duration of *)
(* the grid and with the flags set or cleared beforehand.                  *)

\* the most streams of a container
MaxStreams == 3

Kinds == {"video", "audio", "subtitle", "data"}

StreamLists == UNION {[1 .. n -> Kinds] : n \in 0 .. MaxStreams}

\* context.duration() / AV_TIME_BASE: AV_NOPTS_VALUE (no duration in the
\* container) is negative, and a container may carry a duration of zero
ProbeDurations == {Centi(-100), 0, Centi(30), Centi(1000)}

\* what format::input answers: an error, or a context
ProbeContexts ==
    {[ok |-> FALSE, duration |-> 0, streams |-> <<>>]}
    \cup [ok : {TRUE}, duration : ProbeDurations, streams : StreamLists]

\* at least one stream of the kind is present
HasKind(streams, kind) == \E i \in 1 .. Len(streams) : streams[i] = kind

\* `flag as u32`
AsU32(flag) == IF flag THEN 1 ELSE 0

\* Media::default()
DefaultMedia ==
    [start |-> 0, dur |-> 0, input |-> NoPath, output |-> NoPath,
     use_video |-> FALSE, use_audio |-> FALSE, use_subs |-> FALSE,
     use_extra_streams |-> FALSE]

\* Media::update_video_params once format::input has answered `context`:
\* [ok, media, duration].  The three Iterator::any calls share one iterator,
\* each going on where the one before it stopped.
update_video_params(media, context) ==
    LET streams == context.streams
        v == FindFrom(streams, 1, "video")
        a == FindFrom(streams, v + 1, "audio")
        sb == FindFrom(streams, a + 1, "subtitle")
        m1 == [media EXCEPT !.use_video = (v <= Len(streams)),
                            !.use_audio = (a <= Len(streams)),
                            !.use_subs = (sb <= Len(streams))]
        m2 == [m1 EXCEPT !.use_extra_streams =
                   (Len(streams) > AsU32(m1.use_video) + AsU32(m1.use_audio) + AsU32(m1.use_subs))]
    IN  IF ~context.ok THEN [ok |-> FALSE, media |-> media, duration |-> 0]
        ELSE [ok |-> TRUE, media |-> m2, duration |-> context.duration]

InitProbe ==
    /\ \E context \in ProbeContexts, before \in BOOLEAN, out \in OutputPaths :
         /\ state = [DefaultState EXCEPT !.input = ClipMov, !.input_changed = TRUE,
                                         !.start = Centi(300), !.end = Centi(600),
                                         !.input_length = Centi(800),
                                         !.use_video = before, !.use_audio = before,
                                         !.output = out]
         /\ given = Some([context |-> context,
                          media |-> [DefaultMedia EXCEPT !.input = ClipMov,
                                         !.use_video = before, !.use_audio = before,
                                         !.use_subs = before, !.use_extra_streams = before]])
    /\ CoordinatorIdle
    /\ pc = "probe0"
    /\ res1 = None
    /\ res2 = None

\* State::update_from_input on the container
ProbeState ==
    /\ pc = "probe0"
    /\ \E u \in {update_from_context(state, given[1].context)} :
         /\ state' = u.s
         /\ res1' = Some(u.ok)
    /\ pc' = "probe1"
    /\ UNCHANGED <<jobs, launched, applied, cpi, pass, edits, probed, probe, slots, given, res2>>

\* Media::update_video_params on the container
ProbeMedia ==
    /\ pc = "probe1"
    /\ res2' = Some(update_video_params(given[1].media, given[1].context))
    /\ pc' = "probe2"
    /\ UNCHANGED <<state, jobs, launched, applied, cpi, pass, edits, probed, probe, slots, given, res1>>

NextProbe == ProbeState \/ ProbeMedia

SpecProbe == InitProbe /\ [][NextProbe]_vars

-----------------------------------------------------------------------------
(* The output path derivation over a grid of input paths: each path is     *)
(* put together from a directory, a stem and an extension, and             *)
(* generate_output_path and modify_path are applied to it once.            *)

PathDirs ==
    {<<>>, <<"/">>, <<"a">>, <<"/", "a", "/", "b">>, <<".", ".">>}

PathStems == {<<"clip">>, <<"clip", ".", "tar">>, <<".", "clip">>}

\* no extension, "mov", and the empty extension of a name ending in a dot
PathExts == {None, Some(<<"mov">>), Some(<<>>)}

\* the triples that are the directory, file_stem and extension of a path:
\* a name without an extension has no dot after its first character
PathParts ==
    {q \in [d : PathDirs, s : PathStems, e : PathExts] :
        q.e = None => \A i \in 2 .. Len(q.s) : q.s[i] # "."}

\* dir joined with a file name by one separator
JoinPath(dir, name) ==
    IF dir = <<>> THEN name
    ELSE IF dir[Len(dir)] = "/" THEN dir \o name
    ELSE dir \o <<"/">> \o name

\* the path whose parts are q
PathOf(q) ==
    JoinPath(q.d, IF q.e = None THEN q.s ELSE q.s \o <<".">> \o q.e[1])

InitPath ==
    /\ \E q \in PathParts, trailing \in BOOLEAN, out \in OutputPaths :
         /\ given = Some(q)
         /\ state = [DefaultState EXCEPT
                        !.input = IF trailing THEN PathOf(q) \o <<"/">> ELSE PathOf(q),
                        !.output = out]
    /\ CoordinatorIdle
    /\ pc = "path0"
    /\ res1 = None
    /\ res2 = None

\* State::generate_output_path on the input
GenerateOnce ==
    /\ pc = "path0"
    /\ state' = generate_output_path(state)
    /\ res1' = Some(state'.output)
    /\ pc' = "path1"
    /\ UNCHANGED <<jobs, launched, applied, cpi, pass, edits, probed, probe, slots, given, res2>>

\* modify_path on the same input
ModifyOnce ==
    /\ pc = "path1"
    /\ res2' = Some(modify_path(state.input))
    /\ pc' = "path2"
    /\ UNCHANGED <<state, jobs, launched, applied, cpi, pass, edits, probed, probe, slots, given, res1>>

NextPath == GenerateOnce \/ ModifyOnce

SpecPath == InitPath /\ [][NextPath]_vars

-----------------------------------------------------------------------------
(* The coordinator that threads content hashes.  src/media.rs declares the *)
(* request it launches (Preview with prev_hash, compared by the derived    *)
(* PartialEq) and the decoder that answers (image, hash), SameHash or      *)
(* another error; its own code (the PreviewSlot bookkeeping: last_request, *)
(* last_result_hash, the cancel token) is not among the sources, and is    *)
(* written here after section 4.4 of the specification.  The requests are  *)
(* built as create_preview_images of main.rs builds them, and a result is  *)
(* shown as LoadedStartPreview / LoadedEndPreview show it.                 *)

\* the files the coordinator is pointed at
CoordInputs == {ClipMov, Clip}

\* the start and end values the coordinator is called with
CoordVals == {0, Centi(300), Centi(700), Centi(1000)}

\* the setup step of decode_preview_image that fails on the file ("none": no
\* step fails): a file that does not open, a file without a video stream
FailsOf(input) ==
    IF ~Container(input).ok THEN "open"
    ELSE IF ~HasKind(Container(input).streams, "video") THEN "best_stream"
    ELSE "none"

\* the packets the demuxer yields after a seek to `seek` microseconds: the
\* file has a key frame at 0 and one at 5 s, the second behind an empty
\* packet, and nothing at or after its end
PacketsAt(input, seek) ==
    IF seek * SubMicro >= Container(input).duration THEN <<>>
    ELSE IF seek < 5 * Million THEN <<[data |-> <<1>>, out |-> "frame"]>>
    ELSE <<[data |-> <<>>, out |-> "frame"], [data |-> <<3>>, out |-> "frame"]>>

\* Preview of media.rs: a request of create_preview_images with a prev_hash
WithHash(request, h) == [seek |-> request.seek, input |-> request.input, prev_hash |-> h]

\* #[derive(PartialEq)] on Preview: field by field, prev_hash included
PreviewEq(a, b) == a.seek = b.seek /\ a.input = b.input /\ a.prev_hash = b.prev_hash

\* the request create_preview_images builds for the slot
RequestFor(s, slot) == IF slot = "start" THEN StartRequest(s) ELSE EndRequest(s)

\* a slot comparing the request after the hash has been attached to it
refresh_slot_hash_first(sl, built) ==
    LET request == [built EXCEPT !.prev_hash = sl.last_result_hash]
    IN  IF sl.last_request # None /\ PreviewEq(request, sl.last_request[1])
        THEN [slot |-> sl, launch |-> None]
        ELSE [slot |-> [sl EXCEPT !.last_request = Some(request)], launch |-> Some(request)]

\* one slot of a refresh, given the request built for it: nothing if it is
\* structurally equal to last_request; else it is recorded as last_request
\* and launched with last_result_hash attached as its prev_hash
refresh_slot(sl, built) ==
    IF sl.last_request # None /\ PreviewEq(built, sl.last_request[1])
    THEN [slot |-> sl, launch |-> None]
    ELSE [slot |-> [sl EXCEPT !.last_request = Some(built)],
          launch |-> Some([built EXCEPT !.prev_hash = sl.last_result_hash])]

\* a completion that clears the token and never records the hash
complete_slot_forgetting(sl, r) == [sl EXCEPT !.in_flight = 0]

\* one slot at the completion of its job in flight with result r: the token
\* is cleared, and a successful result's hash becomes last_result_hash
complete_slot(sl, r) ==
    IF r.ok THEN [sl EXCEPT !.in_flight = 0, !.last_result_hash = r.hash]
    ELSE [sl EXCEPT !.in_flight = 0]

\* what decode_preview_image answers to the request
ResultOf(request) ==
    decode_preview_image(FailsOf(request.input),
                         PacketsAt(request.input, request.seek), request.prev_hash)

\* the image of a successful result, shown with the hash it came with
ImageOf(request, r) ==
    [data |-> PacketsAt(request.input, request.seek)[r.image].data, hash |-> r.hash]

\* the image the slot displays
Displayed(s, slot) == IF slot = "start" THEN s.start_preview ELSE s.end_preview

InitCoord ==
    /\ state = [DefaultState EXCEPT !.use_video = TRUE]
    /\ CoordinatorIdle
    /\ pc = "coord"
    /\ HarnessIdle

\* what is left of a cancelled job: cancelling drops its decode state, and
\* whatever it ends with is not looked at
Cancelled(j) == [j EXCEPT !.cancelled = TRUE, !.req = WithHash(DefaultPreview, 0)]

\* A refresh with the trim parameters it is given.  A slot whose request is
\* new cancels its job in flight before it launches the next one.
Refresh ==
    /\ pc = "coord"
    /\ \E input \in CoordInputs, start \in CoordVals, end \in CoordVals :
         \E s \in {[state EXCEPT !.input = input, !.start = start, !.end = end,
                                !.input_length = Container(input).duration]} :
           \E f \in {[sl \in Slots |-> refresh_slot(slots[sl], WithHash(RequestFor(s, sl), 0))]} :
             LET accepted == {sl \in Slots : f[sl].launch # None}
             IN  /\ \A sl \in accepted : launched[sl] < MaxJobs
                 /\ state' = s
                 /\ launched' = [sl \in Slots |-> IF sl \in accepted THEN launched[sl] + 1 ELSE launched[sl]]
                 /\ slots' = [sl \in Slots |->
                                IF sl \in accepted THEN [f[sl].slot EXCEPT !.in_flight = launched[sl] + 1]
                                ELSE f[sl].slot]
                 /\ jobs' = {IF j.slot \in accepted THEN Cancelled(j) ELSE j : j \in jobs}
                            \cup {[slot |-> sl, id |-> launched[sl] + 1, req |-> f[sl].launch[1],
                                   cancelled |-> FALSE] : sl \in accepted}
                 /\ cpi' = [fresh |-> TRUE, args |-> Args(s), video |-> TRUE,
                            same |-> (cpi.args = Args(s)), prevVideo |-> cpi.video,
                            launched |-> accepted]
    /\ res1' = None
    /\ UNCHANGED <<applied, pass, edits, probed, probe, pc, given, res2>>

\* A job ends and its message reaches the control thread: a cancelled job
\* delivers nothing; the result of any other is handed to its slot and, as
\* Some(image) or None, to the Loaded handler.  res1 keeps the result.
Complete ==
    /\ pc = "coord"
    /\ \E j \in jobs :
         \E r \in {ResultOf(j.req)} :
           /\ jobs' = jobs \ {j}
           /\ IF j.cancelled
              THEN /\ res1' = None
                   /\ UNCHANGED <<state, slots, applied>>
              ELSE /\ res1' = Some([slot |-> j.slot, id |-> j.id, result |-> r])
                   /\ slots' = [slots EXCEPT ![j.slot] = complete_slot(slots[j.slot], r)]
                   /\ state' = Loaded(state, j.slot,
                                       IF r.ok THEN Some(ImageOf(j.req, r)) ELSE None)
                   /\ applied' = IF r.ok THEN [applied EXCEPT ![j.slot] = j.id] ELSE applied
    /\ cpi' = [cpi EXCEPT !.fresh = FALSE]
    /\ UNCHANGED <<launched, pass, edits, probed, probe, pc, given, res2>>

NextCoord == Refresh \/ Complete

SpecCoord == InitCoord /\ [][NextCoord]_vars

-----------------------------------------------------------------------------
(* Properties *)

\* C1 (as claimed): whenever a decode result is applied to a slot's displayed
\* image, it is the result of the task launched last for that slot: the result
\* of a task that was superseded before its message arrived is never applied.
C1_SupersededNeverApplied ==
    [][\A sl \in Slots : applied'[sl] # applied[sl] => applied'[sl] = launched[sl]]_vars

\* C2 (as claimed): each slot has at most one decode task that was launched
\* and has not yet delivered its result.
C2_AtMostOneOutstanding ==
    \A sl \in Slots : Cardinality({j \in jobs : j.slot = sl}) <= 1

\* C3 (as claimed): a create_preview_images call whose start, end, duration
\* and input are those of the call before it launches no task.
C3_DedupAnyCall == cpi.same => cpi.launched = {}

\* C3 (amended): a create_preview_images call whose start, end, duration and
\* input are those of the call before it launches no task, provided use_video
\* was true at the call before it.
C3_Dedup == cpi.same /\ cpi.prevVideo => cpi.launched = {}

\* C3 witness: a second call with the arguments of the first, made with video
\* on after the start task of the first call delivered its image.
C3_Witness ==
    /\ cpi.fresh
    /\ cpi.same
    /\ cpi.prevVideo
    /\ applied["start"] > 0

\* C4 (as claimed): after one clamp_numbers call with duration > 0,
\* 0 <= start <= end <= duration.
C4_ClampRange ==
    res1 # None /\ pc \in {"clamp1", "clamp2"} =>
        /\ 0 <= res1[1].start
        /\ res1[1].start <= res1[1].end
        /\ res1[1].end <= res1[1].input_length

\* C5: a second clamp_numbers call changes neither start nor end.
C5_ClampIdempotent == pc = "clamp2" => res2 = res1

\* C5 witness: the second call was made on a result the first call had to
\* change in both numbers.
C5_Witness ==
    /\ pc = "clamp2"
    /\ res1[1].start # given[1].start
    /\ res1[1].end # given[1].end

\* C6 (as claimed): once an input has been probed successfully, the state
\* right after a check_inputs pass has 0 <= start < end <= duration.
C6_TrimWindow ==
    probed /\ pass =>
        /\ 0 <= state.start
        /\ state.start < state.end
        /\ state.end <= state.input_length

\* C7: after a decode that succeeded with hash h, the same packets decoded
\* with prev_hash = h end with SameHash and no image.
C7_HashShortCircuit ==
    pc = "decode2" => ~res2[1].ok /\ res2[1].err = "SameHash"

\* C7 witness: the second decode ran after a first decode whose frame came
\* from a later packet than the first one, the earlier ones having been
\* submitted without a frame.
C7_Witness ==
    /\ pc = "decode2"
    /\ res1[1].read > 1
    /\ Len(res1[1].sent) > 1

\* the end-seek example: create_preview_images has just built the requests
\* for duration 10.0 and end 9.95
EndSeekExample ==
    /\ cpi.fresh
    /\ state.input_length = Centi(1000)
    /\ state.end = Centi(995)

\* C8 (as claimed): with duration 10.0 and end 9.95 the end-slot request
\* seeks to 9_500_000 microseconds.
C8_EndSeekIs9500000 == EndSeekExample => state.last_end_preview.seek = 9500000

\* C8 (amended): with duration 10.0 and end 9.95 the end-slot request seeks
\* to (9.95 - 0.5) * 1_000_000 = 9_450_000 microseconds.
C8_EndSeekIs9450000 == EndSeekExample => state.last_end_preview.seek = 9450000

\* C8 witness: the example's call launched the end-slot task.
C8_Witness == EndSeekExample /\ "end" \in cpi.launched

AbsVal(x) == IF x < 0 THEN -x ELSE x

\* m microseconds is t ticks rounded to the nearest microsecond, a tie going
\* away from zero
IsRounded(t, m) ==
    /\ 2 * AbsVal(m * SubMicro - t) <= SubMicro
    /\ 2 * AbsVal(m * SubMicro - t) = SubMicro => AbsVal(m * SubMicro) > AbsVal(t)

\* C9: the requests create_preview_images builds seek to round(start * 1e6),
\* and to round(end * 1e6) when end <= duration - 0.1, to the microseconds of
\* end - 0.5 when end > duration - 0.1.
C9_SeekTargetRule ==
    cpi.fresh =>
        /\ IsRounded(state.start, state.last_start_preview.seek)
        /\ state.end <= state.input_length - Centi(10) =>
               IsRounded(state.end, state.last_end_preview.seek)
        /\ state.end > state.input_length - Centi(10) =>
               IsRounded(state.end - Centi(50), state.last_end_preview.seek)

\* C9 witness: requests built for a start that is not a whole number of
\* microseconds and an end within 0.1 of the duration.
C9_Witness ==
    /\ cpi.fresh
    /\ state.start % SubMicro # 0
    /\ state.end > state.input_length - Centi(10)
    /\ cpi.launched = Slots

\* C10 (as claimed): every request create_preview_images builds has
\* 0 <= seek <= the duration in microseconds.
C10_SeekInRange ==
    cpi.fresh =>
        /\ 0 <= state.last_start_preview.seek
        /\ state.last_start_preview.seek <= RoundMicros(state.input_length)
        /\ 0 <= state.last_end_preview.seek
        /\ state.last_end_preview.seek <= RoundMicros(state.input_length)

\* C11 (as claimed): after a probe that opened the container, use_video,
\* use_audio and use_subs are true exactly when the container has at least
\* one stream of that kind, whatever the order of the streams, and
\* use_extra_streams is true exactly when there are more streams than typed
\* flags that are true.
C11_TrackPresence ==
    pc = "probe2" /\ res2[1].ok =>
        LET m == res2[1].media
            streams == given[1].context.streams
        IN  /\ m.use_video = HasKind(streams, "video")
            /\ m.use_audio = HasKind(streams, "audio")
            /\ m.use_subs = HasKind(streams, "subtitle")
            /\ m.use_extra_streams =
                   (Len(streams) > AsU32(m.use_video) + AsU32(m.use_audio) + AsU32(m.use_subs))

\* C12 (as claimed): right after a check_inputs pass that probed a changed
\* input successfully, start is 0 and end is the probed duration.
C12_InputChangeResetsWindow ==
    pass /\ probe = "ok" =>
        /\ state.start = 0
        /\ state.end = Container(state.input).duration

\* C13 (as claimed): right after a successful probe of a changed input,
\* use_video and use_audio are true exactly when the probed input has a
\* stream of that kind.
C13_FlagsFollowInput ==
    pass /\ probe = "ok" =>
        /\ state.use_video = HasKind(Container(state.input).streams, "video")
        /\ state.use_audio = HasKind(Container(state.input).streams, "audio")

\* C14: a check_inputs pass whose probe of the changed input fails leaves
\* start and end as they were when the probe was attempted (after the clamp
\* of the same pass, if the numbers were dirty), leaves the duration, the
\* copy flags, the output path and its generated flag as they were before
\* the pass, and launches no decode task.
C14_ProbeFailureAtomic ==
    [][pass' /\ probe' = "err" =>
          LET before == IF state.number_changed THEN clamp_numbers(state) ELSE state
          IN  /\ state'.start = before.start
              /\ state'.end = before.end
              /\ state'.input_length = state.input_length
              /\ state'.use_video = state.use_video
              /\ state'.use_audio = state.use_audio
              /\ state'.output = state.output
              /\ state'.output_is_generated = state.output_is_generated
              /\ launched' = launched
              /\ jobs' = jobs]_vars

\* C14 witness: a pass whose probe failed, after an earlier input had been
\* probed and had set the duration, the end, a flag and a generated output.
C14_Witness ==
    /\ pass
    /\ probe = "err"
    /\ probed
    /\ state.end > 0
    /\ state.input_length > 0
    /\ state.use_video
    /\ state.output_is_generated
    /\ state.output # NoPath

\* C15 (as claimed): a probe of a container that opens but whose duration is
\* absent or not positive fails, and leaves no state whose end is zero or
\* negative.
C15_NoDurationFails ==
    given # None /\ given[1].context.ok /\ given[1].context.duration <= 0 =>
        /\ pc \in {"probe1", "probe2"} => ~res1[1] /\ state.end > 0
        /\ pc = "probe2" => ~res2[1].ok

\* d/s_edited.e, and d/s_edited.mkv without an extension
DerivedPath(q) ==
    JoinPath(q.d, q.s \o <<"_edited", ".">> \o (IF q.e = None THEN <<"mkv">> ELSE q.e[1]))

\* C16: for an input path with directory d, stem s and extension e, the
\* output path generate_output_path and modify_path derive is d/s_edited.e,
\* and d/s_edited.mkv when the input has no extension.
C16_OutputPathDerivation ==
    /\ pc \in {"path1", "path2"} =>
           /\ state.output = DerivedPath(given[1])
           /\ state.output_is_generated
    /\ pc = "path2" => res2[1] = DerivedPath(given[1])

\* C16 witness: "/a/b/clip" has given "/a/b/clip_edited.mkv" in both
\* functions.
C16_Witness ==
    /\ pc = "path2"
    /\ state.input = Clip
    /\ res1[1] = <<"/", "a", "/", "b", "/", "clip", "_edited", ".", "mkv">>
    /\ res2[1] = <<"/", "a", "/", "b", "/", "clip", "_edited", ".", "mkv">>

\* C17: while the output path is one the user entered (not empty, not
\* generated), no message generates an output path in its place: the path
\* changes only to another one the user enters with OutputChange.
C17_UserOutputKept ==
    [][state.output # NoPath /\ ~state.output_is_generated /\ state'.output # state.output =>
          /\ ~state'.output_is_generated
          /\ state'.output \in OutputPaths
          /\ ~pass'
          /\ state'.input = state.input]_vars

\* C17 witness: the output the user entered is in place right after a pass
\* that probed a changed input successfully.
C17_Witness ==
    /\ pass
    /\ probe = "ok"
    /\ state.output = UserOutput
    /\ ~state.output_is_generated
    /\ state.input = Clip

\* the content hash of the result the slot displays (0: none applied yet)
ShownHash(s, slot) == IF Displayed(s, slot) = None THEN 0 ELSE Displayed(s, slot)[1].hash

\* C18: every request launched for a slot carries as prev_hash the content
\* hash of the most recent successful result applied to the slot, which is
\* the slot's last_result_hash.
C18_PriorHashThreading ==
    [][\A j \in jobs' \ jobs :
          ~j.cancelled =>
              /\ j.req.prev_hash = ShownHash(state, j.slot)
              /\ j.req.prev_hash = slots[j.slot].last_result_hash]_vars

\* C18 witness: a job in flight carries the hash of the image its slot shows.
C18_Witness ==
    \E j \in jobs :
        /\ ~j.cancelled
        /\ Displayed(state, j.slot) # None
        /\ j.req.prev_hash # 0
        /\ j.req.prev_hash = ShownHash(state, j.slot)

\* C19: the completion of a job that was not cancelled and ended with
\* SameHash or with any other decode error changes neither the image its
\* slot displays nor the slot's last_result_hash.
C19_FailedJobKeepsSlot ==
    [][res1' # None /\ jobs' # jobs /\ ~res1'[1].result.ok =>
          /\ Displayed(state', res1'[1].slot) = Displayed(state, res1'[1].slot)
          /\ slots'[res1'[1].slot].last_result_hash = slots[res1'[1].slot].last_result_hash]_vars

\* C19 witness: a job has just ended with SameHash on a slot that displays
\* an image.
C19_Witness ==
    /\ res1 # None
    /\ ~res1[1].result.ok
    /\ res1[1].result.err = "SameHash"
    /\ Displayed(state, res1[1].slot) # None
    /\ slots[res1[1].slot].last_result_hash = ShownHash(state, res1[1].slot)

\* the seek target and the input of a request
Target(request) == <<request.seek, request.input>>

FatalExceptAgain(r, packets) ==
    /\ \A k \in 1 .. Len(r.sent) :
           packets[r.sent[k]].out \in {"send_err", "recv_err"} => ~r.ok /\ k = Len(r.sent)
    /\ \A k \in 1 .. Len(r.sent) - 1 : packets[r.sent[k]].out = "again"
    /\ r.ok => packets[r.image].out = "frame"

\* C21 (as claimed): in the packet loop of decode_preview_image (media.rs,
\* files.rs, main.rs) a frame-not-ready answer moves on to the next packet,
\* any other error of send_packet or receive_frame ends the decode with an
\* error, and no image comes from a packet whose send or receive failed.
C21_ErrorsFatalExceptAgain ==
    /\ pc \in {"loop1", "loop2", "loop3"} => FatalExceptAgain(res1[1], given[1].packets)
    /\ pc \in {"loop2", "loop3"} => FatalExceptAgain(res2[1], given[1].packets)
    /\ pc = "loop3" => FatalExceptAgain(res2[2], given[1].packets)

\* C22: a decode that ends with SameHash ended on a packet that is not
\* empty and whose hash is the request's prev_hash, that packet was not
\* submitted and no packet after it was read or submitted; no submitted
\* packet is empty or has the hash prev_hash, so an empty packet is passed
\* over without being compared or submitted.
C22_HashMatchStops ==
    pc \in {"decode1", "decode2"} /\ given[1].fails = "none" =>
        LET r == res1[1]
            packets == given[1].packets
            h == given[1].prev_hash
            Submitted_(k) == \E n \in 1 .. Len(r.sent) : r.sent[n] = k
        IN  /\ \A k \in 1 .. Len(packets) :
                   Submitted_(k) =>
                       /\ packets[k].data # <<>>
                       /\ Hash(packets[k].data) # h
                       /\ k <= r.read
            /\ ~r.ok /\ r.err = "SameHash" =>
                   /\ packets[r.read].data # <<>>
                   /\ Hash(packets[r.read].data) = h
                   /\ ~Submitted_(r.read)
            /\ \A k \in 1 .. r.read - 1 :
                   packets[k].data = <<>> \/ (Submitted_(k) /\ packets[k].out = "again")

\* C22 witness: a decode ended with SameHash on its third packet, after a
\* submitted packet and an empty packet whose hash is prev_hash as well.
C22_Witness ==
    /\ pc = "decode1"
    /\ ~res1[1].ok
    /\ res1[1].err = "SameHash"
    /\ res1[1].read = 3
    /\ res1[1].sent = <<1>>
    /\ given[1].packets[2].data = <<>>
    /\ Hash(<<>>) = given[1].prev_hash

\* no packet of the sequence gives a frame, matches h or raises a fatal error
Exhausted(packets, h) ==
    \A k \in 1 .. Len(packets) :
        \/ packets[k].data = <<>>
        \/ Hash(packets[k].data) # h /\ packets[k].out = "again"

\* C23: the packet loop ends on every packet sequence, and ends with
\* NoPackets exactly when the sequence is used up without a packet that gave
\* a frame, matched prev_hash or raised a fatal error.
C23_NoPacketsIffExhausted ==
    pc \in {"decode1", "decode2"} =>
        /\ res1 # None
        /\ (~res1[1].ok /\ res1[1].err = "NoPackets")
               <=> /\ given[1].fails = "none"
                   /\ Exhausted(given[1].packets, given[1].prev_hash)
        /\ ~res1[1].ok /\ res1[1].err = "NoPackets" => res1[1].read = Len(given[1].packets)

\* C23 witness: NoPackets after three packets, one empty and two submitted
\* with a frame-not-ready answer.
C23_Witness ==
    /\ pc = "decode1"
    /\ ~res1[1].ok
    /\ res1[1].err = "NoPackets"
    /\ Len(given[1].packets) = 3
    /\ Len(res1[1].sent) = 2

\* the tightly packed RGBA buffer of a frame: 4 bytes a pixel, row-major
TightRgba(f) ==
    [j \in 1 .. 4 * f.width * f.height |->
        IF j % 4 = 0 THEN 255 ELSE ColourByte(f.seed, 3 * ((j - 1) \div 4) + ((j - 1) % 4))]

\* C24: the buffer returned for a converted frame of width w, height h and
\* any row stride >= 3 * w is tightly packed: 4 * w * h bytes, every fourth
\* byte 255 and the others the frame's R, G, B values in row-major order.
C24_TightlyPacked ==
    pc = "pack1" =>
        /\ Len(res1[1]) = 4 * given[1].width * given[1].height
        /\ res1[1] = TightRgba(given[1])

\* the request create_preview_images derives for a slot from the state
DerivedRequest(s, slot) == IF slot = "start" THEN StartRequest(s) ELSE EndRequest(s)

\* C25: after every check_inputs pass that started with number_changed set
\* (and with the video previews in use), each slot's last request is the
\* request derived from the state: where the two differed a job was
\* launched and recorded, also when input_changed was set as well and the
\* probe of the new input failed.
C25_PassRefreshesChangedSlots ==
    [][pass' /\ state.number_changed /\ state'.use_video =>
          \A sl \in Slots : RequestOf(state', sl) = DerivedRequest(state', sl)]_vars

\* the slot's part of the program state: its last request, the image it
\* shows, the number of tasks launched for it, the task whose image it
\* shows, and its tasks in flight
SlotState(s, l, ap, js, sl) ==
    <<RequestOf(s, sl), Displayed(s, sl), l[sl], ap[sl], {j \in js : j.slot = sl}>>

\* C26: the slots are independent.  A create_preview_images call that
\* derives for a slot the request the slot already has launches no task for
\* that slot and leaves its last request and its image as they are, whatever
\* it does for the other slot; and the delivery of a slot's result leaves
\* every part of the other slot as it is.
C26_SlotsIndependent ==
    [][\A sl \in Slots :
          /\ cpi'.fresh /\ DerivedRequest(state', sl) = RequestOf(state, sl) =>
                 /\ launched'[sl] = launched[sl]
                 /\ RequestOf(state', sl) = RequestOf(state, sl)
                 /\ Displayed(state', sl) = Displayed(state, sl)
                 /\ {j \in jobs' : j.slot = sl} = {j \in jobs : j.slot = sl}
          /\ (\E j \in jobs \ jobs' : j.slot # sl) =>
                 SlotState(state', launched', applied', jobs', sl)
                     = SlotState(state, launched, applied, jobs, sl)]_vars

\* C26 witness: a create_preview_images call has launched a task for the
\* start slot alone, while the end slot shows an image.
C26_Witness ==
    /\ cpi.fresh
    /\ cpi.launched = {"start"}
    /\ state.end_preview # None
    /\ applied["end"] > 0

\* C27: StartChange(v) and EndChange(v) store v as it is in start or in
\* end and set number_changed; no other field changes (the other number is
\* not touched and nothing is clamped) and no task is launched.  The numbers
\* are clamped by check_inputs, and every check_inputs pass leaves
\* number_changed cleared.
C27_NumericEditDefersClamp ==
    [][/\ edits' # edits /\ StartChange =>
             /\ \E v \in Vals : state' = [state EXCEPT !.start = v, !.number_changed = TRUE]
             /\ launched' = launched /\ jobs' = jobs
       /\ edits' # edits /\ EndChange =>
             /\ \E v \in Vals : state' = [state EXCEPT !.end = v, !.number_changed = TRUE]
             /\ launched' = launched /\ jobs' = jobs
       /\ pass' /\ (Submitted \/ Update) =>
             /\ ~state'.number_changed
             /\ state.number_changed /\ ~state.input_changed =>
                    /\ state'.start = clamp_numbers(state).start
                    /\ state'.end = clamp_numbers(state).end]_vars

\* C27 witness: after a numeric edit the start is a value beyond the end of
\* the input, as typed, with number_changed set and no pass since.
C27_Witness ==
    /\ state.number_changed
    /\ ~pass
    /\ state.input_length > 0
    /\ state.start > state.input_length
    /\ edits > 0

\* the last task launched for the slot has ended without an image
LastJobFailed(l, ap, js, sl) ==
    /\ l[sl] > 0
    /\ ap[sl] # l[sl]
    /\ \A j \in js : j.slot = sl => j.id # l[sl]

\* C28: a failed preview is not tried again for the same request.  The
\* delivery of a task's result leaves the slot's last request as it was
\* recorded at the launch; and once the slot's last task has ended without an
\* image, a create_preview_images call that derives the slot's last request
\* launches no task for the slot: a task is launched for it only when the
\* derived request (seek or input) differs from the last one.
C28_FailedNotRetried ==
    [][\A sl \in Slots :
          /\ (\E j \in jobs \ jobs' : j.slot = sl) =>
                 RequestOf(state', sl) = RequestOf(state, sl)
          /\ LastJobFailed(launched, applied, jobs, sl) /\ cpi'.fresh =>
                 IF DerivedRequest(state', sl) = RequestOf(state, sl)
                 THEN launched'[sl] = launched[sl] /\ sl \notin cpi'.launched
                 ELSE launched'[sl] = launched[sl] + 1 /\ sl \in cpi'.launched]_vars

\* C28 witness: create_preview_images has just been called on a state whose
\* start request is the one of the start slot's only task, which ended
\* without an image, and has launched no task for the start slot.
C28_Witness ==
    /\ cpi.fresh
    /\ "start" \notin cpi.launched
    /\ LastJobFailed(launched, applied, jobs, "start")
    /\ launched["start"] = 1
    /\ DerivedRequest(state, "start") = RequestOf(state, "start")

====
